---- MODULE Spec2Model ----
(***************************************************************************)
(* A model of the frame / resource lifecycle of the vulkan renderer:       *)
(*   - the per-slot descriptor pool and descriptor set caches of Frame     *)
(*     (src/src/Frame.cpp),                                                *)
(*   - the staging transfer of DeviceAllocator                             *)
(*     (src/src/DeviceAllocator.cpp),                                      *)
(*   - the frame loop of Application (declared in src/unnamed/part_001;    *)
(*     its definition is not among the sources and is modelled from        *)
(*     spec.md sections 4.2 and 5).                                        *)
(***************************************************************************)
EXTENDS Integers, Sequences, FiniteSets, TLC

(***************************************************************************)
(* Bounds of the model.                                                    *)
(***************************************************************************)
NumFrames == 2          \* Frame objects held by Application::frames
NumLayouts == 2         \* distinct descriptor set layouts
NumIndices == 2         \* concurrency indices used with one Frame
NumBuffers == 2         \* distinct buffer handles
NumImages == 2          \* distinct image view handles
MaxCalls == 2           \* getDescriptorSet / getDescriptorPool calls explored
HashBits == 3           \* width of the modelled size_t hash
MaxSize == 1            \* largest payload size passed to the allocator
MaxByte == 1            \* largest value of a payload byte
MaxTransfers == 2       \* allocateDeviceLocalBufferAndTransfer calls explored
MaxFrames == 4          \* logical frames drawn by the frame loop
MaxAllocs == 3          \* allocation pairs created by the allocator
NumSizes == 2           \* sizes the window can take
MaxSignals == 2         \* resizes of the window
MaxRejected == 1        \* triggers explored while a recreation is in progress
MaxDraws == 3           \* frames started by the loop with recreation
NumFrameObjs == 3
MaxConstructed == 2

Frames == 1 .. NumFrames
ConcurrencyIndices == 0 .. (NumIndices - 1)
Layouts == 1 .. NumLayouts
Buffers == 1 .. NumBuffers
Images == 1 .. NumImages
BufferBinding == 0      \* binding index of the material's parameter buffer
ImageBinding == 1       \* binding index of the material's texture

HashMod == 2 ^ HashBits

Bytes == 0 .. MaxByte
\* the contents a buffer of n bytes can have
Contents(n) == [1 .. n -> Bytes]
Payloads == UNION {Contents(n) : n \in 0 .. MaxSize}

\* std::map<uint32_t, VkDescriptorBufferInfo> / <uint32_t, VkDescriptorImageInfo>
BufferBindingInfos == [{BufferBinding} -> Buffers]
ImageBindingInfos == [{ImageBinding} -> Images]

EmptyMap == [x \in {} |-> 0]

\* std::map::emplace of a key that is absent (callers looked it up first)
Emplace_assign(m, k, v) == [x \in {k} |-> v]

Emplace(m, k, v) == [x \in (DOMAIN m) \cup {k} |-> IF x = k THEN v ELSE m[x]]

\* std::map::operator[] : default-constructs the value when the key is absent
Subscript(m, k) == IF k \in DOMAIN m THEN m[k] ELSE EmptyMap

NoCall == [kind |-> "none"]

VARIABLES
    descriptorPools,    \* Frame::descriptorPools : frame -> index -> hash -> pool
    descriptorSets,     \* Frame::descriptorSets  : frame -> index -> hash -> set
    numPools,           \* DescriptorPool objects constructed so far
    numSets,            \* DescriptorSet objects constructed so far
    numCalls,           \* calls made so far
    lastCall,           \* the last call: its arguments, what it returned
    firstRet            \* request -> instance the first such request returned

cacheVars == <<descriptorPools, descriptorSets, numPools, numSets, numCalls,
               lastCall, firstRet>>

VARIABLES
    apc,                \* position inside allocateDeviceLocalBufferAndTransfer
    data,               \* the payload argument; its length is the size argument
    buffers,            \* VkBuffer handle -> [size, mem, live]
    destinationBuf,     \* local of allocateDeviceLocalBufferAndTransfer (0: none)
    stagingBuf,         \* local of allocateDeviceLocalBufferAndTransfer (0: none)
    commandBuffer,      \* local of copyBuffer: the one-shot command buffer
    transferQueue,      \* work submitted to immediateTransferQueue, not yet executed
    returned,           \* the handle the call returned (0: none)
    failedCall,         \* the first native call that returned a failure
    numTransfers,       \* calls started so far
    copyDone,           \* the copy submitted by this call has executed
    liveAtCall          \* the buffers that were live when the call started

allocVars == <<apc, data, buffers, destinationBuf, stagingBuf, commandBuffer,
               transferQueue, returned, failedCall, numTransfers, copyDone,
               liveAtCall>>

VARIABLES
    frames,             \* Application::frames : the handles each Frame holds
    fenceSignaled,      \* VkFence handle -> signaled
    semSignaled,        \* VkSemaphore handle -> signaled
    lpc,                \* position of the CPU thread inside Application::draw
    currentFrameIndex,  \* Application::currentFrameIndex
    frameCounter,       \* Application::frameCounter
    phase,              \* slot -> what the CPU did last with the slot
    recorded,           \* slot -> logical frame its command buffer holds (0: none)
    updatedSets,        \* slot -> descriptor sets last pushed by updateAll
    submission,         \* slot -> the slot's submission on the graphics queue
    acquiring,          \* slot -> the semaphore a pending acquire will signal
    presentQueue        \* the requests on the present queue, oldest first

loopVars == <<frames, fenceSignaled, semSignaled, lpc, currentFrameIndex,
              frameCounter, phase, recorded, updatedSets, submission,
              acquiring, presentQueue>>

VARIABLES
    spc,                        \* position of the CPU thread: the loop, or a step of recreateSwapChain
    needsSwapChainRecreation,   \* Application::needsSwapChainRecreation
    recreatingSwapChain,        \* Application::recreatingSwapChain
    windowSize,                 \* the size of the window's framebuffer
    queriedExtent,              \* the extent read from the surface capabilities
    swapChain,                  \* Application::swapChain and what was built on it
    destroyed,                  \* swapchain generation -> times its objects were destroyed
    inFlight,                   \* slot -> generation its pending command buffer draws to (0: none)
    swapSlot,                   \* the slot the next frame uses
    lastResult,                 \* what the last acquire or present returned, and what followed
    numSignals,                 \* resizes of the window so far
    pendingSignals,             \* resize callbacks not yet delivered
    numRaised,                  \* times needsSwapChainRecreation went from false to true
    numRecreations,             \* recreations started so far
    numRejected,                \* triggers refused while a recreation was in progress
    numDraws                    \* frames started so far

swapVars == <<spc, needsSwapChainRecreation, recreatingSwapChain, windowSize,
              queriedExtent, swapChain, destroyed, inFlight, swapSlot, lastResult,
              numSignals, pendingSignals, numRaised, numRecreations, numRejected,
              numDraws>>

VARIABLES
    allocations,        \* allocation (in order of creation) -> [kind, resource, memory]
    mpc,                \* "running", or "aborted" once VK_ASSERT has failed
    lastFree            \* the last free: the allocation, and the allocations before it

memVars == <<allocations, mpc, lastFree>>

VARIABLES
    tpc,                \* "alive", or the step Frame::~Frame is at
    released,           \* the cached objects whose unique_ptr was reset
    destroyLog          \* what the destructor destroyed, in order

tearVars == <<tpc, released, destroyLog>>

VARIABLES
    fobj,               \* the Frame objects: their state and the handles they hold
    dtorOf,             \* the Frame object whose destructor is running, 0 if none
    dtorAt,             \* the stage that destructor is at
    destroyCalls,       \* for each native object, how often it was destroyed
    numConstructed,     \* the calls of Frame::Frame(device, queueFamily) so far
    lastMove            \* the last move construction: destination, source, handles

moveVars == <<fobj, dtorOf, dtorAt, destroyCalls, numConstructed, lastMove>>

vars == <<cacheVars, allocVars, loopVars, swapVars, memVars, tearVars, moveVars>>

(***************************************************************************)
(* VkHash.h is not among the sources.  hash_value and hash_combine are the *)
(* conventional seed-mixing functions on size_t; the model computes them   *)
(* at a width of HashBits bits.  What the cache relies on is that they are *)
(* deterministic functions into a finite range.                            *)
(***************************************************************************)
RECURSIVE BitXor(_, _, _)
BitXor(a, b, n) ==
    IF n = 0 THEN 0
    ELSE ((a + b) % 2) + 2 * BitXor(a \div 2, b \div 2, n - 1)

\* the low 16 bits of the mixing constant 0x9e3779b9
HashGolden == 31161

hash_combine(seed, v) ==
    BitXor(seed, (v + HashGolden + seed * 64 + seed \div 4) % HashMod, HashBits)

hash_value(layout) == layout % HashMod

RECURSIVE CombineAll(_, _, _)
\* for (auto &i : infos) hash_combine(hash, i.second);   (key order)
CombineAll(seed, infos, keys) ==
    IF keys = {} THEN seed
    ELSE LET k == CHOOSE x \in keys : \A y \in keys : x <= y
         IN CombineAll(hash_combine(seed, infos[k]), infos, keys \ {k})

\* Frame::getDescriptorSet, lines 117-123
SetHash(layout, bufferBindingInfos, imageBindingInfos) ==
    CombineAll(
        CombineAll(hash_value(layout), bufferBindingInfos, DOMAIN bufferBindingInfos),
        imageBindingInfos, DOMAIN imageBindingInfos)

(***************************************************************************)
(* Frame::getDescriptorPool as a function of the pool maps of one Frame.   *)
(* pools: index -> hash -> pool; n: pools constructed so far.              *)
(* A cached object lives in the map node that owns it until the Frame is   *)
(* destroyed, so an instance is identified by the place it was emplaced    *)
(* at: <<frame, map index, hash>>.                                         *)
(***************************************************************************)
PoolMapIndex_shared(concurrencyIndex) == 0

PoolMapIndex(concurrencyIndex) == concurrencyIndex

GetPool(pools, n, f, concurrencyIndex, layout) ==
    LET hash == hash_value(layout)
        idx == PoolMapIndex(concurrencyIndex)
        descriptorPoolMap == Subscript(pools, idx)
    IN IF hash \in DOMAIN descriptorPoolMap
       THEN [pools |-> Emplace(pools, idx, descriptorPoolMap),
             n |-> n,
             ret |-> descriptorPoolMap[hash],
             created |-> FALSE]
       ELSE LET pool == [id |-> <<f, idx, hash>>, layout |-> layout]
            IN [pools |-> Emplace(pools, idx,
                                  Emplace(descriptorPoolMap, hash, pool)),
                n |-> n + 1,
                ret |-> pool,
                created |-> TRUE]

(***************************************************************************)
(* Frame::getDescriptorSet as a function of both maps of one Frame.        *)
(***************************************************************************)
SetMapIndex_shared(concurrencyIndex) == 0

SetMapIndex(concurrencyIndex) == concurrencyIndex

\* SetHash, evaluated once for every request of the model
SetHashTable ==
    [l \in Layouts, b \in BufferBindingInfos, i \in ImageBindingInfos |->
        SetHash(l, b, i)]

SetKey(layout, bufferBindingInfos, imageBindingInfos) ==
    SetHashTable[layout, bufferBindingInfos, imageBindingInfos]

CacheHit_never(descriptorSetMap, hash) == FALSE

CacheHit(descriptorSetMap, hash) == hash \in DOMAIN descriptorSetMap

GetSet(pools, sets, np, ns, f, concurrencyIndex, layout, bufs, imgs) ==
    LET hash == SetKey(layout, bufs, imgs)
        idx == SetMapIndex(concurrencyIndex)
        descriptorSetMap == Subscript(sets, idx)
    IN IF CacheHit(descriptorSetMap, hash)
       THEN [pools |-> pools,
             sets |-> Emplace(sets, idx, descriptorSetMap),
             np |-> np, ns |-> ns,
             ret |-> descriptorSetMap[hash],
             created |-> FALSE]
       ELSE LET p == GetPool(pools, np, f, concurrencyIndex, layout)
                set == [id |-> <<f, idx, hash>>, pool |-> p.ret.id,
                        buffers |-> bufs, images |-> imgs]
            IN [pools |-> p.pools,
                sets |-> Emplace(sets, idx, Emplace(descriptorSetMap, hash, set)),
                np |-> p.n, ns |-> ns + 1,
                ret |-> set,
                created |-> TRUE]

\* Frame::updateDescriptorSets as a function of the set maps of one Frame:
\* the instances updateAll is called on
UpdateDescriptorSets(sets, concurrencyIndex) ==
    IF concurrencyIndex \in DOMAIN sets
    THEN {sets[concurrencyIndex][h].id : h \in DOMAIN sets[concurrencyIndex]}
    ELSE {}

Request(f, c, layout, bufs, imgs) ==
    [frame |-> f, index |-> c, layout |-> layout, buffers |-> bufs, images |-> imgs]

(***************************************************************************)
(* The operations of Frame on its caches.                                  *)
(***************************************************************************)
CacheInit ==
    /\ descriptorPools = [f \in Frames |-> EmptyMap]
    /\ descriptorSets = [f \in Frames |-> EmptyMap]
    /\ numPools = 0
    /\ numSets = 0
    /\ numCalls = 0
    /\ lastCall = NoCall
    /\ firstRet = EmptyMap

getDescriptorPool(f, c, layout) ==
    /\ numCalls < MaxCalls
    /\ LET r == GetPool(descriptorPools[f], numPools, f, c, layout)
       IN /\ descriptorPools' = [descriptorPools EXCEPT ![f] = r.pools]
          /\ numPools' = r.n
          /\ lastCall' = [kind |-> "getDescriptorPool", frame |-> f, index |-> c,
                          layout |-> layout, ret |-> r.ret.id,
                          created |-> r.created]
    /\ numCalls' = numCalls + 1
    /\ UNCHANGED <<descriptorSets, numSets, firstRet>>
    /\ UNCHANGED <<allocVars, loopVars, swapVars, memVars, tearVars, moveVars>>

getDescriptorSet(f, c, layout, bufs, imgs) ==
    /\ numCalls < MaxCalls
    /\ \E r \in {GetSet(descriptorPools[f], descriptorSets[f], numPools, numSets,
                         f, c, layout, bufs, imgs)},
          req \in {Request(f, c, layout, bufs, imgs)} :
          /\ descriptorPools' = [descriptorPools EXCEPT ![f] = r.pools]
          /\ descriptorSets' = [descriptorSets EXCEPT ![f] = r.sets]
          /\ numPools' = r.np
          /\ numSets' = r.ns
          /\ lastCall' = [kind |-> "getDescriptorSet", request |-> req,
                          ret |-> r.ret.id, created |-> r.created,
                          repeated |-> req \in DOMAIN firstRet,
                          poolCreated |-> r.np # numPools]
          /\ firstRet' = IF req \in DOMAIN firstRet THEN firstRet
                         ELSE Emplace(firstRet, req, r.ret.id)
    /\ numCalls' = numCalls + 1
    /\ UNCHANGED <<allocVars, loopVars, swapVars, memVars, tearVars, moveVars>>

\* Frame::updateDescriptorSets looks the index up with find (line 141), which
\* inserts nothing; operator[] would default-construct an entry
SetsAfterUpdate_subscript(sets, concurrencyIndex) ==
    Emplace(sets, concurrencyIndex, Subscript(sets, concurrencyIndex))

SetsAfterUpdate(sets, concurrencyIndex) == sets

updateDescriptorSets(f, c) ==
    /\ numCalls < MaxCalls
    /\ descriptorSets' = [descriptorSets EXCEPT
                             ![f] = SetsAfterUpdate(descriptorSets[f], c)]
    /\ lastCall' = [kind |-> "updateDescriptorSets", frame |-> f, index |-> c,
                    updated |-> UpdateDescriptorSets(descriptorSets[f], c)]
    /\ numCalls' = numCalls + 1
    /\ UNCHANGED <<descriptorPools, numPools, numSets, firstRet>>
    /\ UNCHANGED <<allocVars, loopVars, swapVars, memVars, tearVars, moveVars>>

(***************************************************************************)
(* DeviceAllocator.  Every native call either succeeds or returns a        *)
(* failure code; VK_ASSERT (VkHelpers.h, not among the sources; spec.md    *)
(* 4.1: "aborts via an assertion contract") ends the operation when the    *)
(* result it is given is a failure.                                        *)
(***************************************************************************)
Results == {"VK_SUCCESS", "VK_ERROR"}

VK_ASSERT(result) == IF result = "VK_SUCCESS" THEN "continue" ELSE "abort"

\* vmaCreateBuffer rejects a buffer of size 0 (VkBufferCreateInfo::size must
\* be greater than 0); otherwise it succeeds or runs out of memory.
vmaCreateBufferResults(size) ==
    IF size = 0 THEN {"VK_ERROR"} ELSE Results

NoWork == [kind |-> "idle"]

NoCommandBuffer == [state |-> "none", copy |-> NoWork]

AllocInit ==
    /\ apc = "idle"
    /\ data = <<>>
    /\ buffers = EmptyMap
    /\ destinationBuf = 0
    /\ stagingBuf = 0
    /\ commandBuffer = NoCommandBuffer
    /\ transferQueue = NoWork
    /\ returned = 0
    /\ failedCall = "none"
    /\ numTransfers = 0
    /\ copyDone = FALSE
    /\ liveAtCall = {}

NewHandle == Cardinality(DOMAIN buffers) + 1

NoteFailure(call, result) ==
    IF result # "VK_SUCCESS" /\ failedCall = "none" THEN call ELSE failedCall

\* DeviceAllocator::allocateBuffer: the position after VK_ASSERT(vmaCreateBuffer)
AfterCreateBuffer(result, next) ==
    IF VK_ASSERT(result) = "continue" THEN next ELSE "aborted"

\* the content of a new allocation is indeterminate
AllocateBufferStep(call, next, garbage, result, isDestination) ==
    /\ failedCall' = NoteFailure(call, result)
    /\ apc' = AfterCreateBuffer(result, next)
    /\ IF result = "VK_SUCCESS"
       THEN /\ buffers' = Emplace(buffers, NewHandle,
                                  [size |-> Len(data), mem |-> garbage, live |-> TRUE])
            /\ IF isDestination
               THEN destinationBuf' = NewHandle /\ UNCHANGED stagingBuf
               ELSE stagingBuf' = NewHandle /\ UNCHANGED destinationBuf
       ELSE UNCHANGED <<buffers, destinationBuf, stagingBuf>>

\* the caller invokes allocateDeviceLocalBufferAndTransfer(data, size, usage)
CallAllocateAndTransfer(payload) ==
    /\ apc \in {"idle", "returned"}
    /\ numTransfers < MaxTransfers
    /\ numTransfers' = numTransfers + 1
    /\ apc' = "allocDestination"
    /\ data' = payload
    /\ destinationBuf' = 0
    /\ stagingBuf' = 0
    /\ returned' = 0
    /\ copyDone' = FALSE
    /\ liveAtCall' = {h \in DOMAIN buffers : buffers[h].live}
    /\ UNCHANGED <<buffers, commandBuffer, transferQueue, failedCall>>
    /\ UNCHANGED <<cacheVars, loopVars, swapVars, memVars, tearVars, moveVars>>

\* lines 38-42
AllocateDestination ==
    /\ apc = "allocDestination"
    /\ \E result \in vmaCreateBufferResults(Len(data)), garbage \in Contents(Len(data)) :
          AllocateBufferStep("vmaCreateBuffer", "allocStaging", garbage, result, TRUE)
    /\ UNCHANGED <<data, commandBuffer, transferQueue, returned, numTransfers, copyDone, liveAtCall>>
    /\ UNCHANGED <<cacheVars, loopVars, swapVars, memVars, tearVars, moveVars>>

\* lines 43-48
AllocateStaging ==
    /\ apc = "allocStaging"
    /\ \E result \in vmaCreateBufferResults(Len(data)), garbage \in Contents(Len(data)) :
          AllocateBufferStep("vmaCreateBuffer", "hostCopy", garbage, result, FALSE)
    /\ UNCHANGED <<data, commandBuffer, transferQueue, returned, numTransfers, copyDone, liveAtCall>>
    /\ UNCHANGED <<cacheVars, loopVars, swapVars, memVars, tearVars, moveVars>>

\* lines 50-56: the VkResult of vmaCopyMemoryToAllocation is discarded, so
\* the operation goes on to copyBuffer whatever the result
AfterHostCopy(result) == "cbAllocate"

HostCopy ==
    /\ apc = "hostCopy"
    /\ \E result \in Results :
          /\ failedCall' = NoteFailure("vmaCopyMemoryToAllocation", result)
          /\ apc' = AfterHostCopy(result)
          /\ buffers' = IF result = "VK_SUCCESS"
                        THEN [buffers EXCEPT ![stagingBuf].mem = data]
                        ELSE buffers
    /\ UNCHANGED <<data, destinationBuf, stagingBuf, commandBuffer, transferQueue,
                   returned, numTransfers, copyDone, liveAtCall>>
    /\ UNCHANGED <<cacheVars, loopVars, swapVars, memVars, tearVars, moveVars>>

\* copyBuffer, lines 153-154
CopyAllocateCommandBuffer ==
    /\ apc = "cbAllocate"
    /\ \E result \in Results :
          /\ failedCall' = NoteFailure("vkAllocateCommandBuffers", result)
          /\ apc' = IF VK_ASSERT(result) = "continue" THEN "cbBegin" ELSE "aborted"
          /\ commandBuffer' = IF result = "VK_SUCCESS"
                              THEN [state |-> "initial", copy |-> NoWork]
                              ELSE commandBuffer
    /\ UNCHANGED <<data, buffers, destinationBuf, stagingBuf, transferQueue,
                   returned, numTransfers, copyDone, liveAtCall>>
    /\ UNCHANGED <<cacheVars, loopVars, swapVars, memVars, tearVars, moveVars>>

\* copyBuffer, line 160
CopyBegin ==
    /\ apc = "cbBegin"
    /\ \E result \in Results :
          /\ failedCall' = NoteFailure("vkBeginCommandBuffer", result)
          /\ apc' = IF VK_ASSERT(result) = "continue" THEN "cbCopy" ELSE "aborted"
          /\ commandBuffer' = IF result = "VK_SUCCESS"
                              THEN [commandBuffer EXCEPT !.state = "recording"]
                              ELSE commandBuffer
    /\ UNCHANGED <<data, buffers, destinationBuf, stagingBuf, transferQueue,
                   returned, numTransfers, copyDone, liveAtCall>>
    /\ UNCHANGED <<cacheVars, loopVars, swapVars, memVars, tearVars, moveVars>>

\* copyBuffer, lines 162-166: one region, offsets 0, the whole size
CopyRegion_shifted(srcBuffer, dstBuffer, size) ==
    [kind |-> "copy", src |-> srcBuffer, dst |-> dstBuffer,
     srcOffset |-> 0, dstOffset |-> size, size |-> size]

CopyRegion(srcBuffer, dstBuffer, size) ==
    [kind |-> "copy", src |-> srcBuffer, dst |-> dstBuffer,
     srcOffset |-> 0, dstOffset |-> 0, size |-> size]

CopyRecord ==
    /\ apc = "cbCopy"
    /\ commandBuffer' = [state |-> "recording",
                         copy |-> CopyRegion(stagingBuf, destinationBuf, Len(data))]
    /\ apc' = "cbEnd"
    /\ UNCHANGED <<data, buffers, destinationBuf, stagingBuf, transferQueue,
                   returned, failedCall, numTransfers, copyDone, liveAtCall>>
    /\ UNCHANGED <<cacheVars, loopVars, swapVars, memVars, tearVars, moveVars>>

\* copyBuffer, line 168
CopyEnd ==
    /\ apc = "cbEnd"
    /\ \E result \in Results :
          /\ failedCall' = NoteFailure("vkEndCommandBuffer", result)
          /\ apc' = IF VK_ASSERT(result) = "continue" THEN "cbSubmit" ELSE "aborted"
          /\ commandBuffer' = IF result = "VK_SUCCESS"
                              THEN [commandBuffer EXCEPT !.state = "executable"]
                              ELSE commandBuffer
    /\ UNCHANGED <<data, buffers, destinationBuf, stagingBuf, transferQueue,
                   returned, numTransfers, copyDone, liveAtCall>>
    /\ UNCHANGED <<cacheVars, loopVars, swapVars, memVars, tearVars, moveVars>>

\* copyBuffer, line 175
CopySubmit ==
    /\ apc = "cbSubmit"
    /\ \E result \in Results :
          /\ failedCall' = NoteFailure("vkQueueSubmit", result)
          /\ apc' = IF VK_ASSERT(result) = "continue" THEN "cbWaitIdle" ELSE "aborted"
          /\ IF result = "VK_SUCCESS"
             THEN /\ transferQueue' = commandBuffer.copy
                  /\ commandBuffer' = [commandBuffer EXCEPT !.state = "pending"]
             ELSE UNCHANGED <<transferQueue, commandBuffer>>
    /\ UNCHANGED <<data, buffers, destinationBuf, stagingBuf,
                   returned, numTransfers, copyDone, liveAtCall>>
    /\ UNCHANGED <<cacheVars, loopVars, swapVars, memVars, tearVars, moveVars>>

\* the device executes the submitted copy; reading a destroyed source
\* yields indeterminate bytes
TransferExecute ==
    /\ transferQueue.kind = "copy"
    /\ LET w == transferQueue
       IN \E garbage \in Contents(w.size) :
             /\ buffers' = [buffers EXCEPT ![w.dst].mem =
                               IF buffers[w.src].live
                               THEN [i \in 1 .. w.size |-> buffers[w.src].mem[i]]
                               ELSE garbage]
             /\ copyDone' = buffers[w.src].live
    /\ transferQueue' = NoWork
    /\ commandBuffer' = IF commandBuffer.state = "pending"
                        THEN [commandBuffer EXCEPT !.state = "invalid"]
                        ELSE commandBuffer
    /\ UNCHANGED <<apc, data, destinationBuf, stagingBuf, returned, failedCall,
                   numTransfers, liveAtCall>>
    /\ UNCHANGED <<cacheVars, loopVars, swapVars, memVars, tearVars, moveVars>>

\* copyBuffer, line 176: vkQueueWaitIdle returns VK_SUCCESS once the queue
\* is idle, or a failure (device lost)
WaitIdleReady_noWait == TRUE

WaitIdleReady == transferQueue = NoWork

CopyWaitIdle ==
    /\ apc = "cbWaitIdle"
    /\ \E result \in Results :
          /\ result = "VK_SUCCESS" => WaitIdleReady
          /\ failedCall' = NoteFailure("vkQueueWaitIdle", result)
          /\ apc' = IF VK_ASSERT(result) = "continue" THEN "cbFree" ELSE "aborted"
    /\ UNCHANGED <<data, buffers, destinationBuf, stagingBuf, commandBuffer,
                   transferQueue, returned, numTransfers, copyDone, liveAtCall>>
    /\ UNCHANGED <<cacheVars, loopVars, swapVars, memVars, tearVars, moveVars>>

\* copyBuffer, line 178
CopyFreeCommandBuffer ==
    /\ apc = "cbFree"
    /\ commandBuffer' = NoCommandBuffer
    /\ apc' = "destroyStaging"
    /\ UNCHANGED <<data, buffers, destinationBuf, stagingBuf, transferQueue,
                   returned, failedCall, numTransfers, copyDone, liveAtCall>>
    /\ UNCHANGED <<cacheVars, loopVars, swapVars, memVars, tearVars, moveVars>>

\* line 59
DestroyStaging ==
    /\ apc = "destroyStaging"
    /\ buffers' = [buffers EXCEPT ![stagingBuf].live = FALSE]
    /\ apc' = "return"
    /\ UNCHANGED <<data, destinationBuf, stagingBuf, commandBuffer, transferQueue,
                   returned, failedCall, numTransfers, copyDone, liveAtCall>>
    /\ UNCHANGED <<cacheVars, loopVars, swapVars, memVars, tearVars, moveVars>>

\* line 61
ReturnDestination ==
    /\ apc = "return"
    /\ returned' = destinationBuf
    /\ apc' = "returned"
    /\ UNCHANGED <<data, buffers, destinationBuf, stagingBuf, commandBuffer,
                   transferQueue, failedCall, numTransfers, copyDone, liveAtCall>>
    /\ UNCHANGED <<cacheVars, loopVars, swapVars, memVars, tearVars, moveVars>>

NextAlloc ==
    \/ \E payload \in Payloads : CallAllocateAndTransfer(payload)
    \/ AllocateDestination
    \/ AllocateStaging
    \/ HostCopy
    \/ CopyAllocateCommandBuffer
    \/ CopyBegin
    \/ CopyRecord
    \/ CopyEnd
    \/ CopySubmit
    \/ TransferExecute
    \/ CopyWaitIdle
    \/ CopyFreeCommandBuffer
    \/ DestroyStaging
    \/ ReturnDestination


(***************************************************************************)
(* Frame: construction and the handle getters (src/src/Frame.cpp).         *)
(***************************************************************************)
\* Frame::Frame, lines 11-38: the native objects one Frame creates
NewFrame(f) ==
    [commandPool |-> <<f, "commandPool">>,
     commandBuffer |-> <<f, "commandBuffer">>,
     imageAvailableSemaphore |-> <<f, "imageAvailable">>,
     renderFinishedSemaphore |-> <<f, "renderFinished">>,
     fence |-> <<f, "fence">>]

FenceCreatedSignaled_unsignaled == FALSE

\* line 33: VK_FENCE_CREATE_SIGNALED_BIT
FenceCreatedSignaled == TRUE

getCommandBuffer(f) == frames[f].commandBuffer

getFence_next(f) == frames[(f % NumFrames) + 1].fence

getFence(f) == frames[f].fence

getImageAvailableSemaphore_renderFinished(f) == frames[f].renderFinishedSemaphore

getImageAvailableSemaphore(f) == frames[f].imageAvailableSemaphore

getRenderFinishedSemaphore(f) == frames[f].renderFinishedSemaphore

Fences == {NewFrame(f).fence : f \in Frames}
Semaphores == {NewFrame(f).imageAvailableSemaphore : f \in Frames}
                  \cup {NewFrame(f).renderFinishedSemaphore : f \in Frames}

(***************************************************************************)
(* The frame loop, Application::draw.  Its definition is not among the     *)
(* sources; the steps follow spec.md 4.2 (acquire, record, submit,         *)
(* present) and 5 (a slot is mutated only while its fence is signaled).    *)
(* The device and the presentation engine run beside the CPU thread.       *)
(***************************************************************************)
\* the one material every render object of the run refers to
MaterialLayout == 1
MaterialBufferInfos == [b \in {BufferBinding} |-> 1]
MaterialImageInfos == [i \in {ImageBinding} |-> 1]

NoSubmission == [state |-> "none"]
NoAcquire == [state |-> "none"]

\* the slot of the frame being drawn; slots are numbered from 1
CurrentSlot == currentFrameIndex + 1

LoopInit ==
    /\ frames = [f \in Frames |-> NewFrame(f)]
    /\ fenceSignaled = [h \in Fences |-> FenceCreatedSignaled]
    /\ semSignaled = [h \in Semaphores |-> FALSE]
    /\ lpc = "waitFence"
    /\ currentFrameIndex = 0
    /\ frameCounter = 0
    /\ phase = [f \in Frames |-> "idle"]
    /\ recorded = [f \in Frames |-> 0]
    /\ updatedSets = [f \in Frames |-> {}]
    /\ submission = [f \in Frames |-> NoSubmission]
    /\ acquiring = [f \in Frames |-> NoAcquire]
    /\ presentQueue = <<>>

\* 1. acquire: vkWaitForFences on the slot's fence, no timeout ...
WaitFence ==
    /\ lpc = "waitFence"
    /\ frameCounter < MaxFrames
    /\ fenceSignaled[getFence(CurrentSlot)]
    /\ lpc' = "acquire"
    /\ UNCHANGED <<frames, fenceSignaled, semSignaled, currentFrameIndex,
                   frameCounter, phase, recorded, updatedSets, submission,
                   acquiring, presentQueue>>
    /\ UNCHANGED <<cacheVars, allocVars, swapVars, memVars, tearVars, moveVars>>

\* ... then vkAcquireNextImageKHR with the slot's image-available semaphore
AcquireImage ==
    /\ lpc = "acquire"
    /\ acquiring' = [acquiring EXCEPT ![CurrentSlot] =
                        [state |-> "pending",
                         signal |-> getImageAvailableSemaphore(CurrentSlot)]]
    /\ phase' = [phase EXCEPT ![CurrentSlot] = "acquired"]
    /\ lpc' = "record"
    /\ UNCHANGED <<frames, fenceSignaled, semSignaled, currentFrameIndex,
                   frameCounter, recorded, updatedSets, submission, presentQueue>>
    /\ UNCHANGED <<cacheVars, allocVars, swapVars, memVars, tearVars, moveVars>>

\* 2. record: updateDescriptors(frame) requests the material's descriptor
\* set and pushes the slot's sets, then the command buffer is reset and
\* re-recorded
RecordCommands ==
    /\ lpc = "record"
    /\ LET f == CurrentSlot
           r == GetSet(descriptorPools[f], descriptorSets[f], numPools, numSets,
                       f, currentFrameIndex, MaterialLayout,
                       MaterialBufferInfos, MaterialImageInfos)
       IN /\ descriptorPools' = [descriptorPools EXCEPT ![f] = r.pools]
          /\ descriptorSets' = [descriptorSets EXCEPT ![f] = r.sets]
          /\ numPools' = r.np
          /\ numSets' = r.ns
          /\ updatedSets' = [updatedSets EXCEPT ![f] =
                                UpdateDescriptorSets(r.sets, currentFrameIndex)]
          /\ recorded' = [recorded EXCEPT ![f] = frameCounter + 1]
          /\ phase' = [phase EXCEPT ![f] = "recorded"]
    /\ lpc' = "submit"
    /\ UNCHANGED <<numCalls, lastCall, firstRet>>
    /\ UNCHANGED <<frames, fenceSignaled, semSignaled, currentFrameIndex,
                   frameCounter, submission, acquiring, presentQueue>>
    /\ UNCHANGED <<allocVars, swapVars, memVars, tearVars, moveVars>>

\* 3. submit: the fence is reset and the command buffer submitted; the
\* submission waits for the image-available semaphore and signals the
\* render-finished semaphore and the fence when it completes
SubmitCommands ==
    /\ lpc = "submit"
    /\ LET f == CurrentSlot
       IN /\ fenceSignaled' = [fenceSignaled EXCEPT ![getFence(f)] = FALSE]
          /\ submission' = [submission EXCEPT ![f] =
                               [state |-> "waiting",
                                wait |-> getImageAvailableSemaphore(f),
                                signal |-> getRenderFinishedSemaphore(f),
                                fence |-> getFence(f),
                                commandBuffer |-> getCommandBuffer(f),
                                frame |-> recorded[f]]]
          /\ phase' = [phase EXCEPT ![f] = "submitted"]
    /\ lpc' = "present"
    /\ UNCHANGED <<frames, semSignaled, currentFrameIndex, frameCounter,
                   recorded, updatedSets, acquiring, presentQueue>>
    /\ UNCHANGED <<cacheVars, allocVars, swapVars, memVars, tearVars, moveVars>>

\* 4. present: vkQueuePresentKHR waits for the render-finished semaphore;
\* the loop moves on to the next slot
PresentFrame ==
    /\ lpc = "present"
    /\ LET f == CurrentSlot
       IN /\ presentQueue' = Append(presentQueue,
                                    [slot |-> f,
                                     wait |-> getRenderFinishedSemaphore(f),
                                     frame |-> recorded[f]])
          /\ phase' = [phase EXCEPT ![f] = "presented"]
    /\ currentFrameIndex' = (currentFrameIndex + 1) % NumFrames
    /\ frameCounter' = frameCounter + 1
    /\ lpc' = "waitFence"
    /\ UNCHANGED <<frames, fenceSignaled, semSignaled, recorded, updatedSets,
                   submission, acquiring>>
    /\ UNCHANGED <<cacheVars, allocVars, swapVars, memVars, tearVars, moveVars>>

\* the presentation engine hands the image over: the semaphore given to
\* the acquire is signaled
ImageBecomesAvailable(f) ==
    /\ acquiring[f].state = "pending"
    /\ semSignaled' = [semSignaled EXCEPT ![acquiring[f].signal] = TRUE]
    /\ acquiring' = [acquiring EXCEPT ![f] = NoAcquire]
    /\ UNCHANGED <<frames, fenceSignaled, lpc, currentFrameIndex, frameCounter,
                   phase, recorded, updatedSets, submission, presentQueue>>
    /\ UNCHANGED <<cacheVars, allocVars, swapVars, memVars, tearVars, moveVars>>

\* the device starts a submission once its wait semaphore is signaled,
\* which unsignals the semaphore
GpuStart(f) ==
    /\ submission[f].state = "waiting"
    /\ semSignaled[submission[f].wait]
    /\ semSignaled' = [semSignaled EXCEPT ![submission[f].wait] = FALSE]
    /\ submission' = [submission EXCEPT ![f].state = "executing"]
    /\ UNCHANGED <<frames, fenceSignaled, lpc, currentFrameIndex, frameCounter,
                   phase, recorded, updatedSets, acquiring, presentQueue>>
    /\ UNCHANGED <<cacheVars, allocVars, swapVars, memVars, tearVars, moveVars>>

\* the submission completes: its signal semaphore and its fence are signaled
GpuComplete(f) ==
    /\ submission[f].state = "executing"
    /\ semSignaled' = [semSignaled EXCEPT ![submission[f].signal] = TRUE]
    /\ fenceSignaled' = [fenceSignaled EXCEPT ![submission[f].fence] = TRUE]
    /\ submission' = [submission EXCEPT ![f] = NoSubmission]
    /\ UNCHANGED <<frames, lpc, currentFrameIndex, frameCounter, phase, recorded,
                   updatedSets, acquiring, presentQueue>>
    /\ UNCHANGED <<cacheVars, allocVars, swapVars, memVars, tearVars, moveVars>>

\* the presentation engine shows the oldest queued image once the
\* semaphore its present waits for is signaled
DisplayImage ==
    /\ presentQueue # <<>>
    /\ semSignaled[Head(presentQueue).wait]
    /\ semSignaled' = [semSignaled EXCEPT ![Head(presentQueue).wait] = FALSE]
    /\ presentQueue' = Tail(presentQueue)
    /\ UNCHANGED <<frames, fenceSignaled, lpc, currentFrameIndex, frameCounter,
                   phase, recorded, updatedSets, submission, acquiring>>
    /\ UNCHANGED <<cacheVars, allocVars, swapVars, memVars, tearVars, moveVars>>

NextLoop ==
    \/ WaitFence
    \/ AcquireImage
    \/ RecordCommands
    \/ SubmitCommands
    \/ PresentFrame
    \/ \E f \in Frames : ImageBecomesAvailable(f)
    \/ \E f \in Frames : GpuStart(f)
    \/ \E f \in Frames : GpuComplete(f)
    \/ DisplayImage

(***************************************************************************)
(* DeviceAllocator: the life of buffer and image allocation pairs.  A pair *)
(* is a resource (VkBuffer or VkImage) and its backing memory              *)
(* (VmaAllocation).  free is called on pairs that are live: calling it on  *)
(* a destroyed pair is outside the contract of vmaDestroyBuffer/Image.     *)
(***************************************************************************)
NoFree == [allocation |-> 0]

MemInit ==
    /\ allocations = <<>>
    /\ mpc = "running"
    /\ lastFree = NoFree

Live(alloc) == alloc.resource = "live" /\ alloc.memory = "live"

NewPair(kind) == [kind |-> kind, resource |-> "live", memory |-> "live"]

\* allocateBuffer, lines 131-142: VK_ASSERT(vmaCreateBuffer), then the pair
\* allocateImageAttachment, lines 87-101: VK_ASSERT(vmaCreateImage), then the pair
CreatePair(kind, result) ==
    IF VK_ASSERT(result) = "continue"
    THEN /\ allocations' = Append(allocations, NewPair(kind))
         /\ mpc' = mpc
    ELSE /\ allocations' = allocations
         /\ mpc' = "aborted"

allocateBuffer ==
    /\ mpc = "running"
    /\ Len(allocations) < MaxAllocs
    /\ \E result \in Results : CreatePair("buffer", result)
    /\ UNCHANGED lastFree
    /\ UNCHANGED <<cacheVars, allocVars, loopVars, swapVars, tearVars, moveVars>>

allocateImageAttachment ==
    /\ mpc = "running"
    /\ Len(allocations) < MaxAllocs
    /\ \E result \in Results : CreatePair("image", result)
    /\ UNCHANGED lastFree
    /\ UNCHANGED <<cacheVars, allocVars, loopVars, swapVars, tearVars, moveVars>>

\* vmaDestroyBuffer / vmaDestroyImage destroy the resource and free its memory
vmaDestroyBuffer_keepMemory(alloc) == [alloc EXCEPT !.resource = "destroyed"]

vmaDestroyBuffer(alloc) ==
    [alloc EXCEPT !.resource = "destroyed", !.memory = "destroyed"]

vmaDestroyImage(alloc) ==
    [alloc EXCEPT !.resource = "destroyed", !.memory = "destroyed"]

\* DeviceAllocator::free(std::pair<VkBuffer, VmaAllocation>), lines 104-107
freeBuffer(a) ==
    /\ mpc = "running"
    /\ allocations[a].kind = "buffer"
    /\ Live(allocations[a])
    /\ allocations' = [allocations EXCEPT ![a] = vmaDestroyBuffer(@)]
    /\ lastFree' = [allocation |-> a, before |-> allocations]
    /\ UNCHANGED mpc
    /\ UNCHANGED <<cacheVars, allocVars, loopVars, swapVars, tearVars, moveVars>>

\* DeviceAllocator::free(std::pair<VkImage, VmaAllocation>), lines 109-112
freeImage(a) ==
    /\ mpc = "running"
    /\ allocations[a].kind = "image"
    /\ Live(allocations[a])
    /\ allocations' = [allocations EXCEPT ![a] = vmaDestroyImage(@)]
    /\ lastFree' = [allocation |-> a, before |-> allocations]
    /\ UNCHANGED mpc
    /\ UNCHANGED <<cacheVars, allocVars, loopVars, swapVars, tearVars, moveVars>>

NextMem ==
    \/ allocateBuffer
    \/ allocateImageAttachment
    \/ \E a \in DOMAIN allocations : freeBuffer(a)
    \/ \E a \in DOMAIN allocations : freeImage(a)

(***************************************************************************)
(* Frame::~Frame (src/src/Frame.cpp, lines 55-71), one step per object it  *)
(* releases or destroys.  The loops visit every entry of every map; the    *)
(* order within a loop is the maps' iteration order, which the model       *)
(* leaves open.                                                            *)
(***************************************************************************)
TearInit ==
    /\ tpc = "alive"
    /\ released = {}
    /\ destroyLog = <<>>

\* the stages of the destructor body, in program order
DtorOrder_syncFirst ==
    <<"fence", "renderFinished", "imageAvailable", "sets", "pools", "commandPool">>

DtorOrder ==
    <<"sets", "pools", "fence", "renderFinished", "imageAvailable", "commandPool">>

DtorFirst == DtorOrder[1]

DtorAfter(stage) ==
    LET i == CHOOSE k \in DOMAIN DtorOrder : DtorOrder[k] = stage
    IN IF i = Len(DtorOrder) THEN "done" ELSE DtorOrder[i + 1]

\* the objects the maps of Frame f own
SetsOf(f) ==
    UNION {{descriptorSets[f][c][h].id : h \in DOMAIN descriptorSets[f][c]}
           : c \in DOMAIN descriptorSets[f]}

PoolsOf(f) ==
    UNION {{descriptorPools[f][c][h].id : h \in DOMAIN descriptorPools[f][c]}
           : c \in DOMAIN descriptorPools[f]}

\* the objects of one kind whose unique_ptr was reset
Released(what) == {r[2] : r \in {x \in released : x[1] = what}}

Logged(what, id) == Append(destroyLog, [what |-> what, id |-> id])

\* the Frame goes out of scope
DtorBegin(f) ==
    /\ tpc = "alive"
    /\ tpc' = DtorFirst
    /\ UNCHANGED <<released, destroyLog>>
    /\ UNCHANGED <<cacheVars, allocVars, loopVars, swapVars, memVars, moveVars>>

\* lines 57-61: i.second.reset() for one more cached descriptor set
DtorResetSet(f) ==
    /\ tpc = "sets"
    /\ \E id \in SetsOf(f) \ Released("descriptorSet") :
          /\ released' = released \cup {<<"descriptorSet", id>>}
          /\ destroyLog' = Logged("descriptorSet", id)
    /\ UNCHANGED tpc
    /\ UNCHANGED <<cacheVars, allocVars, loopVars, swapVars, memVars, moveVars>>

\* line 61: the loop over the sets has visited every entry
DtorSetsDone(f) ==
    /\ tpc = "sets"
    /\ SetsOf(f) \subseteq Released("descriptorSet")
    /\ tpc' = DtorAfter("sets")
    /\ UNCHANGED <<released, destroyLog>>
    /\ UNCHANGED <<cacheVars, allocVars, loopVars, swapVars, memVars, moveVars>>

\* lines 62-66: i.second.reset() for one more cached descriptor pool
DtorResetPool(f) ==
    /\ tpc = "pools"
    /\ \E id \in PoolsOf(f) \ Released("descriptorPool") :
          /\ released' = released \cup {<<"descriptorPool", id>>}
          /\ destroyLog' = Logged("descriptorPool", id)
    /\ UNCHANGED tpc
    /\ UNCHANGED <<cacheVars, allocVars, loopVars, swapVars, memVars, moveVars>>

\* line 66: the loop over the pools has visited every entry
DtorPoolsDone(f) ==
    /\ tpc = "pools"
    /\ PoolsOf(f) \subseteq Released("descriptorPool")
    /\ tpc' = DtorAfter("pools")
    /\ UNCHANGED <<released, destroyLog>>
    /\ UNCHANGED <<cacheVars, allocVars, loopVars, swapVars, memVars, moveVars>>

DtorDestroy(stage, what, id) ==
    /\ tpc = stage
    /\ destroyLog' = Logged(what, id)
    /\ tpc' = DtorAfter(stage)
    /\ UNCHANGED released
    /\ UNCHANGED <<cacheVars, allocVars, loopVars, swapVars, memVars, moveVars>>

\* line 67
DtorDestroyFence(f) == DtorDestroy("fence", "fence", frames[f].fence)

\* line 68
DtorDestroyRenderFinished(f) ==
    DtorDestroy("renderFinished", "semaphore", frames[f].renderFinishedSemaphore)

\* line 69
DtorDestroyImageAvailable(f) ==
    DtorDestroy("imageAvailable", "semaphore", frames[f].imageAvailableSemaphore)

\* line 70
DtorDestroyCommandPool(f) ==
    DtorDestroy("commandPool", "commandPool", frames[f].commandPool)

\* a Frame fills its caches while it is alive, and is then destroyed
NextTear ==
    \/ /\ tpc = "alive"
       /\ \E c \in ConcurrencyIndices, l \in Layouts :
             getDescriptorSet(1, c, l, MaterialBufferInfos, MaterialImageInfos)
    \/ DtorBegin(1)
    \/ DtorResetSet(1)
    \/ DtorSetsDone(1)
    \/ DtorResetPool(1)
    \/ DtorPoolsDone(1)
    \/ DtorDestroyFence(1)
    \/ DtorDestroyRenderFinished(1)
    \/ DtorDestroyImageAvailable(1)
    \/ DtorDestroyCommandPool(1)

(***************************************************************************)
(* Frame objects and the native objects they hold: Frame::Frame,           *)
(* Frame::Frame(Frame &&) and Frame::~Frame (src/src/Frame.cpp, lines      *)
(* 11-71).  A Frame object is a piece of storage; the move constructor     *)
(* initialises only the five handles and the device, so the descriptor     *)
(* maps of the objects of this section are empty and the two loops of the  *)
(* destructor have nothing to visit.  One thread runs the constructors and *)
(* destructors, so at most one destructor is running.                      *)
(***************************************************************************)
FrameObjs == 1 .. NumFrameObjs

VK_NULL_HANDLE == <<0, "null">>

HandleFields ==
    {"commandPool", "commandBuffer", "fence", "imageAvailableSemaphore",
     "renderFinishedSemaphore"}

NullHandles == [k \in HandleFields |-> VK_NULL_HANDLE]

\* the native objects the constructor can have created
Natives == UNION {{NewFrame(n)[k] : k \in HandleFields} : n \in 1 .. MaxConstructed}

NoMove == [to |-> 0]

MoveInit ==
    /\ fobj = [o \in FrameObjs |-> [state |-> "absent", h |-> NullHandles]]
    /\ dtorOf = 0
    /\ dtorAt = "none"
    /\ destroyCalls = [n \in Natives |-> 0]
    /\ numConstructed = 0
    /\ lastMove = NoMove

\* Frame::Frame(device, renderQueueFamilyIndex), lines 11-38
ConstructFrame(o) ==
    /\ dtorOf = 0
    /\ fobj[o].state = "absent"
    /\ numConstructed < MaxConstructed
    /\ fobj' = [fobj EXCEPT ![o] = [state |-> "alive",
                                    h |-> NewFrame(numConstructed + 1)]]
    /\ numConstructed' = numConstructed + 1
    /\ UNCHANGED <<dtorOf, dtorAt, destroyCalls, lastMove>>
    /\ UNCHANGED <<cacheVars, allocVars, loopVars, swapVars, memVars, tearVars>>

\* lines 41-45: the member initialisers copy the handles of other
MovedTo(other) == [k \in HandleFields |-> other[k]]

MovedFrom_kept(other) == other

\* lines 48-52: the body sets the handles of other to VK_NULL_HANDLE
MovedFrom(other) == [k \in HandleFields |-> VK_NULL_HANDLE]

\* Frame::Frame(Frame &&other), lines 40-53
MoveConstructFrame(o, other) ==
    /\ dtorOf = 0
    /\ o # other
    /\ fobj[o].state = "absent"
    /\ fobj[other].state = "alive"
    /\ fobj' = [fobj EXCEPT ![o] = [state |-> "alive", h |-> MovedTo(fobj[other].h)],
                            ![other].h = MovedFrom(fobj[other].h)]
    /\ lastMove' = [to |-> o, from |-> other, taken |-> fobj[other].h]
    /\ UNCHANGED <<dtorOf, dtorAt, destroyCalls, numConstructed>>
    /\ UNCHANGED <<cacheVars, allocVars, loopVars, swapVars, memVars, tearVars>>

\* the handle each destroying stage of the destructor passes (lines 67-70)
StageField(stage) ==
    CASE stage = "fence" -> "fence"
      [] stage = "renderFinished" -> "renderFinishedSemaphore"
      [] stage = "imageAvailable" -> "imageAvailableSemaphore"
      [] stage = "commandPool" -> "commandPool"

\* the native objects that go when vkDestroy* is given the handle: none for
\* VK_NULL_HANDLE; a command pool takes the command buffers allocated from
\* it (lines 22-26) with it
DestroyedWith(handle) ==
    IF handle = VK_NULL_HANDLE THEN {}
    ELSE IF handle[2] = "commandPool"
         THEN {handle, NewFrame(handle[1]).commandBuffer}
         ELSE {handle}

vkDestroy(calls, handle) ==
    [n \in Natives |-> IF n \in DestroyedWith(handle) THEN calls[n] + 1 ELSE calls[n]]

\* Frame::~Frame, line 55
FrameDtorBegin(o) ==
    /\ dtorOf = 0
    /\ fobj[o].state = "alive"
    /\ fobj' = [fobj EXCEPT ![o].state = "destroying"]
    /\ dtorOf' = o
    /\ dtorAt' = DtorFirst
    /\ UNCHANGED <<destroyCalls, numConstructed, lastMove>>
    /\ UNCHANGED <<cacheVars, allocVars, loopVars, swapVars, memVars, tearVars>>

\* where the destructor is after a stage: at the next one, or finished
FrameDtorAdvance(stage) ==
    /\ dtorAt' = DtorAfter(stage)
    /\ IF DtorAfter(stage) = "done"
       THEN /\ fobj' = [fobj EXCEPT ![dtorOf].state = "dead"]
            /\ dtorOf' = 0
       ELSE UNCHANGED <<fobj, dtorOf>>

\* lines 57-66: the loops over the empty maps
FrameDtorLoops ==
    /\ dtorOf # 0
    /\ dtorAt \in {"sets", "pools"}
    /\ FrameDtorAdvance(dtorAt)
    /\ UNCHANGED <<destroyCalls, numConstructed, lastMove>>
    /\ UNCHANGED <<cacheVars, allocVars, loopVars, swapVars, memVars, tearVars>>

\* lines 67-70: vkDestroyFence, vkDestroySemaphore twice, vkDestroyCommandPool
FrameDtorDestroy ==
    /\ dtorOf # 0
    /\ dtorAt \in {"fence", "renderFinished", "imageAvailable", "commandPool"}
    /\ destroyCalls' = vkDestroy(destroyCalls, fobj[dtorOf].h[StageField(dtorAt)])
    /\ FrameDtorAdvance(dtorAt)
    /\ UNCHANGED <<numConstructed, lastMove>>
    /\ UNCHANGED <<cacheVars, allocVars, loopVars, swapVars, memVars, tearVars>>

NextMove ==
    \/ \E o \in FrameObjs : ConstructFrame(o)
    \/ \E o, other \in FrameObjs : MoveConstructFrame(o, other)
    \/ \E o \in FrameObjs : FrameDtorBegin(o)
    \/ FrameDtorLoops
    \/ FrameDtorDestroy

(***************************************************************************)
(* Swapchain recreation.  Application.h declares recreateSwapChain, draw,  *)
(* framebufferResized and the two flags; their bodies are not among the    *)
(* sources, so the protocol follows spec.md 4.3 and 7: a resize signal or  *)
(* an out-of-date / suboptimal result raises needsSwapChainRecreation;     *)
(* recreateSwapChain is guarded by recreatingSwapChain, waits for the      *)
(* device to go idle, destroys the old objects, recreates them against the *)
(* current surface, and the loop resumes.                                  *)
(***************************************************************************)
Sizes == 1 .. NumSizes

SwapResults ==
    {"VK_SUCCESS", "VK_SUBOPTIMAL_KHR", "VK_ERROR_OUT_OF_DATE_KHR",
     "VK_ERROR_DEVICE_LOST"}

RecreationSteps == {"waitIdle", "destroy", "query", "create"}

NoResult == [call |-> "none"]

SwapInit ==
    /\ spc = "loop"
    /\ needsSwapChainRecreation = FALSE
    /\ recreatingSwapChain = FALSE
    /\ windowSize = 1
    /\ queriedExtent = 1
    /\ swapChain = [gen |-> 1, extent |-> 1, live |-> TRUE]
    /\ destroyed = <<0>>
    /\ inFlight = [f \in Frames |-> 0]
    /\ swapSlot = 1
    /\ lastResult = NoResult
    /\ numSignals = 0
    /\ pendingSignals = 0
    /\ numRaised = 0
    /\ numRecreations = 0
    /\ numRejected = 0
    /\ numDraws = 0

\* the flag after a trigger, and the count of its changes from false to true
Raised == IF needsSwapChainRecreation THEN numRaised ELSE numRaised + 1

\* the windowing system gives the window a new size; the callback follows
WindowResized(size) ==
    /\ spc # "terminated"
    /\ numSignals < MaxSignals
    /\ numSignals' = numSignals + 1
    /\ pendingSignals' = pendingSignals + 1
    /\ windowSize' = size
    /\ UNCHANGED <<spc, needsSwapChainRecreation, recreatingSwapChain, queriedExtent,
                   swapChain, destroyed, inFlight, swapSlot, lastResult, numRaised,
                   numRecreations, numRejected, numDraws>>
    /\ UNCHANGED <<cacheVars, allocVars, loopVars, memVars, tearVars, moveVars>>

\* Application::framebufferResized, the resize callback, is delivered
framebufferResized ==
    /\ spc # "terminated"
    /\ pendingSignals > 0
    /\ pendingSignals' = pendingSignals - 1
    /\ needsSwapChainRecreation' = TRUE
    /\ numRaised' = Raised
    /\ UNCHANGED <<spc, recreatingSwapChain, windowSize, queriedExtent, swapChain,
                   destroyed, inFlight, swapSlot, lastResult, numSignals,
                   numRecreations, numRejected, numDraws>>
    /\ UNCHANGED <<cacheVars, allocVars, loopVars, memVars, tearVars, moveVars>>

\* the guard at the entry of recreateSwapChain
RecreateGuard_none == TRUE

RecreateGuard == ~recreatingSwapChain

\* recreateSwapChain is entered: past the guard the recreation starts and the
\* request it serves is taken; a call the guard refuses returns at once
recreateSwapChainEnter ==
    IF RecreateGuard
    THEN /\ recreatingSwapChain' = TRUE
         /\ needsSwapChainRecreation' = FALSE
         /\ spc' = "waitIdle"
         /\ numRecreations' = numRecreations + 1
         /\ UNCHANGED numRejected
    ELSE /\ numRejected' = numRejected + 1
         /\ UNCHANGED <<recreatingSwapChain, needsSwapChainRecreation, spc,
                        numRecreations>>

\* the loop finds the flag raised
StartRecreation ==
    /\ spc = "loop"
    /\ needsSwapChainRecreation
    /\ recreateSwapChainEnter
    /\ UNCHANGED <<windowSize, queriedExtent, swapChain, destroyed, inFlight,
                   swapSlot, lastResult, numSignals, numRaised, numDraws, pendingSignals>>
    /\ UNCHANGED <<cacheVars, allocVars, loopVars, memVars, tearVars, moveVars>>

\* a trigger that arrives while a recreation is under way
TriggerDuringRecreation ==
    /\ spc \in RecreationSteps
    /\ needsSwapChainRecreation
    /\ numRejected < MaxRejected
    /\ recreateSwapChainEnter
    /\ UNCHANGED <<windowSize, queriedExtent, swapChain, destroyed, inFlight,
                   swapSlot, lastResult, numSignals, numRaised, numDraws, pendingSignals>>
    /\ UNCHANGED <<cacheVars, allocVars, loopVars, memVars, tearVars, moveVars>>

\* the wait for the device to go idle returns
DeviceIdle_noWait == TRUE

DeviceIdle == \A f \in Frames : inFlight[f] = 0

WaitDeviceIdle ==
    /\ spc = "waitIdle"
    /\ DeviceIdle
    /\ spc' = "destroy"
    /\ UNCHANGED <<needsSwapChainRecreation, recreatingSwapChain, windowSize,
                   queriedExtent, swapChain, destroyed, inFlight, swapSlot,
                   lastResult, numSignals, numRaised, numRecreations, numRejected,
                   numDraws, pendingSignals>>
    /\ UNCHANGED <<cacheVars, allocVars, loopVars, memVars, tearVars, moveVars>>

\* the old framebuffers, image views, swapchain and depth image are destroyed
DestroyOld ==
    /\ spc = "destroy"
    /\ destroyed' = [destroyed EXCEPT ![swapChain.gen] = @ + 1]
    /\ swapChain' = [swapChain EXCEPT !.live = FALSE]
    /\ spc' = "query"
    /\ UNCHANGED <<needsSwapChainRecreation, recreatingSwapChain, windowSize,
                   queriedExtent, inFlight, swapSlot, lastResult, numSignals,
                   numRaised, numRecreations, numRejected, numDraws, pendingSignals>>
    /\ UNCHANGED <<cacheVars, allocVars, loopVars, memVars, tearVars, moveVars>>

\* the current surface capabilities are read
QuerySurface ==
    /\ spc = "query"
    /\ queriedExtent' = windowSize
    /\ spc' = "create"
    /\ UNCHANGED <<needsSwapChainRecreation, recreatingSwapChain, windowSize,
                   swapChain, destroyed, inFlight, swapSlot, lastResult,
                   numSignals, numRaised, numRecreations, numRejected, numDraws, pendingSignals>>
    /\ UNCHANGED <<cacheVars, allocVars, loopVars, memVars, tearVars, moveVars>>

\* the flag when a recreation completes: a request raised meanwhile stays
FlagAtCompletion_cleared(flag) == FALSE

FlagAtCompletion(flag) == flag

\* swapchain, image views, depth image and framebuffers are created anew and
\* the loop resumes; a failure to create them is fatal
CreateNew ==
    /\ spc = "create"
    /\ \E result \in Results :
          IF VK_ASSERT(result) = "continue"
          THEN /\ swapChain' = [gen |-> swapChain.gen + 1,
                                extent |-> queriedExtent, live |-> TRUE]
               /\ destroyed' = Append(destroyed, 0)
               /\ recreatingSwapChain' = FALSE
               /\ needsSwapChainRecreation' = FlagAtCompletion(needsSwapChainRecreation)
               /\ spc' = "loop"
          ELSE /\ spc' = "terminated"
               /\ UNCHANGED <<swapChain, destroyed, recreatingSwapChain,
                              needsSwapChainRecreation>>
    /\ UNCHANGED <<windowSize, queriedExtent, inFlight, swapSlot, lastResult,
                   numSignals, numRaised, numRecreations, numRejected, numDraws, pendingSignals>>
    /\ UNCHANGED <<cacheVars, allocVars, loopVars, memVars, tearVars, moveVars>>

\* out-of-date and suboptimal are the two expected transient results
IsTransient_outOfDateOnly(result) == result = "VK_ERROR_OUT_OF_DATE_KHR"

IsTransient(result) ==
    result \in {"VK_ERROR_OUT_OF_DATE_KHR", "VK_SUBOPTIMAL_KHR"}

\* the results acquire and present can return: the transient ones only when
\* the surface no longer matches the swapchain
PossibleResults ==
    IF swapChain.extent = windowSize
    THEN {"VK_SUCCESS", "VK_ERROR_DEVICE_LOST"}
    ELSE SwapResults

\* where the loop goes after an acquire or a present
AfterSwapResult(result, next) ==
    IF result = "VK_SUCCESS" THEN next
    ELSE IF IsTransient(result) THEN "loop"
    ELSE "terminated"

\* the frame is skipped and the recreation requested
HandleSwapResult(call, result, next) ==
    /\ lastResult' = [call |-> call, result |-> result]
    /\ spc' = AfterSwapResult(result, next)
    /\ IF AfterSwapResult(result, next) = "loop" /\ result # "VK_SUCCESS"
       THEN /\ needsSwapChainRecreation' = TRUE
            /\ numRaised' = Raised
       ELSE UNCHANGED <<needsSwapChainRecreation, numRaised>>

\* the loop waits for the slot's fence and acquires an image
SwapAcquire ==
    /\ spc = "loop"
    /\ ~needsSwapChainRecreation
    /\ numDraws < MaxDraws
    /\ inFlight[swapSlot] = 0
    /\ numDraws' = numDraws + 1
    /\ \E result \in PossibleResults : HandleSwapResult("acquire", result, "acquired")
    /\ UNCHANGED <<recreatingSwapChain, windowSize, queriedExtent, swapChain,
                   destroyed, inFlight, swapSlot, numSignals, numRecreations,
                   numRejected, pendingSignals>>
    /\ UNCHANGED <<cacheVars, allocVars, loopVars, memVars, tearVars, moveVars>>

\* the slot's command buffer, recorded against the current framebuffers, is
\* submitted
SwapSubmit ==
    /\ spc = "acquired"
    /\ inFlight' = [inFlight EXCEPT ![swapSlot] = swapChain.gen]
    /\ spc' = "submitted"
    /\ UNCHANGED <<needsSwapChainRecreation, recreatingSwapChain, windowSize,
                   queriedExtent, swapChain, destroyed, swapSlot, lastResult,
                   numSignals, numRaised, numRecreations, numRejected, numDraws, pendingSignals>>
    /\ UNCHANGED <<cacheVars, allocVars, loopVars, memVars, tearVars, moveVars>>

SwapPresent ==
    /\ spc = "submitted"
    /\ \E result \in PossibleResults : HandleSwapResult("present", result, "loop")
    /\ swapSlot' = (swapSlot % NumFrames) + 1
    /\ UNCHANGED <<recreatingSwapChain, windowSize, queriedExtent, swapChain,
                   destroyed, inFlight, numSignals, numRecreations, numRejected,
                   numDraws, pendingSignals>>
    /\ UNCHANGED <<cacheVars, allocVars, loopVars, memVars, tearVars, moveVars>>

\* the device completes the slot's submission
SwapGpuFinish(f) ==
    /\ inFlight[f] # 0
    /\ inFlight' = [inFlight EXCEPT ![f] = 0]
    /\ UNCHANGED <<spc, needsSwapChainRecreation, recreatingSwapChain, windowSize,
                   queriedExtent, swapChain, destroyed, swapSlot, lastResult,
                   numSignals, numRaised, numRecreations, numRejected, numDraws, pendingSignals>>
    /\ UNCHANGED <<cacheVars, allocVars, loopVars, memVars, tearVars, moveVars>>

NextSwap ==
    \/ \E size \in Sizes : WindowResized(size)
    \/ framebufferResized
    \/ StartRecreation
    \/ TriggerDuringRecreation
    \/ WaitDeviceIdle
    \/ DestroyOld
    \/ QuerySurface
    \/ CreateNew
    \/ SwapAcquire
    \/ SwapSubmit
    \/ SwapPresent
    \/ \E f \in Frames : SwapGpuFinish(f)

Init ==
    /\ CacheInit /\ AllocInit /\ LoopInit /\ SwapInit /\ MemInit /\ TearInit
    /\ MoveInit

Next ==
    \/ \E c \in ConcurrencyIndices, l \in Layouts :
          getDescriptorPool(1, c, l)
    \/ \E c \in ConcurrencyIndices, l \in Layouts,
          b \in BufferBindingInfos, i \in ImageBindingInfos :
          getDescriptorSet(1, c, l, b, i)
    \/ \E c \in ConcurrencyIndices : updateDescriptorSets(1, c)

Spec == Init /\ [][Next]_vars

SpecAlloc == Init /\ [][NextAlloc]_vars

SpecLoop == Init /\ [][NextLoop]_vars

SpecMem == Init /\ [][NextMem]_vars

SpecTear == Init /\ [][NextTear]_vars

SpecSwap == Init /\ [][NextSwap]_vars

SpecMove == Init /\ [][NextMove]_vars

\* The frame loop with its scheduling: the CPU thread runs on whenever its
\* next step is possible (the fence wait has no timeout and nothing else
\* blocks), the presentation engine hands over every image it was asked
\* for, and the device starts and completes every submission whose wait
\* semaphore is signaled.  Nothing is assumed of DisplayImage.
LoopFairness ==
    /\ WF_vars(WaitFence)
    /\ WF_vars(AcquireImage)
    /\ WF_vars(RecordCommands)
    /\ WF_vars(SubmitCommands)
    /\ WF_vars(PresentFrame)
    /\ \A f \in Frames : WF_vars(ImageBecomesAvailable(f))
    /\ \A f \in Frames : WF_vars(GpuStart(f))
    /\ \A f \in Frames : WF_vars(GpuComplete(f))

SpecLoopFair == Init /\ [][NextLoop]_vars /\ LoopFairness

(***************************************************************************)
(* Properties of the descriptor set cache.                                 *)
(***************************************************************************)
SameSlot(r1, r2) == r1.frame = r2.frame /\ r1.index = r2.index

\* same layout, same binding indices, another handle at some binding
DiffersInHandle(r1, r2) ==
    /\ r1.layout = r2.layout
    /\ DOMAIN r1.buffers = DOMAIN r2.buffers
    /\ DOMAIN r1.images = DOMAIN r2.images
    /\ \/ \E k \in DOMAIN r1.buffers : r1.buffers[k] # r2.buffers[k]
       \/ \E k \in DOMAIN r1.images : r1.images[k] # r2.images[k]

\* C1: within one slot, a request for a combination that was requested
\* before returns the instance the first such request returned, and
\* constructs no descriptor set.
C1_RepeatedRequestReturnsCached ==
    lastCall.kind = "getDescriptorSet" =>
        /\ lastCall.request \in DOMAIN firstRet
        /\ lastCall.ret = firstRet[lastCall.request]
        /\ (lastCall.repeated => ~lastCall.created)

C1_Witness ==
    /\ lastCall.kind = "getDescriptorSet"
    /\ lastCall.repeated
    /\ numSets = 1

\* C2: within one slot, two requests whose combinations differ in the
\* resource handle of a binding return distinct instances.
C2_DifferentHandleDistinctInstance ==
    \A r1 \in DOMAIN firstRet : \A r2 \in DOMAIN firstRet :
        (SameSlot(r1, r2) /\ DiffersInHandle(r1, r2))
            => firstRet[r1] # firstRet[r2]

\* C4: requests made for two different slots never return the same
\* instance, also when layout and bindings are identical.
C4_NoSharingAcrossSlots ==
    \A r1 \in DOMAIN firstRet : \A r2 \in DOMAIN firstRet :
        ~SameSlot(r1, r2) => firstRet[r1] # firstRet[r2]

C4_Witness ==
    \E r1 \in DOMAIN firstRet : \E r2 \in DOMAIN firstRet :
        /\ ~SameSlot(r1, r2)
        /\ r1.layout = r2.layout
        /\ r1.buffers = r2.buffers
        /\ r1.images = r2.images
        /\ numSets = 2

(***************************************************************************)
(* Properties of DeviceAllocator::allocateDeviceLocalBufferAndTransfer.    *)
(***************************************************************************)
\* C7: for a payload of size N > 0, when the call has returned, the
\* returned buffer holds exactly the payload.
C7_ReturnedBufferHoldsData ==
    (apc = "returned" /\ Len(data) > 0) => buffers[returned].mem = data

\* C8: a call with size 0 does not fail: it never reaches an assertion abort.
C8_EmptyPayloadDoesNotAbort ==
    (apc # "idle" /\ Len(data) = 0) => apc # "aborted"

AfterWait == {"cbFree", "destroyStaging", "return", "returned"}

\* C9: the call gets past the wait only when the copy it submitted has
\* executed and the queue is idle; the staging buffer is destroyed only after
\* that; on return the staging buffer is destroyed, the command buffer is
\* freed, and the destination is the only buffer the call leaves live.
C9_ReturnsAfterCopyCompleted ==
    /\ apc \in AfterWait => (copyDone /\ transferQueue = NoWork)
    /\ (stagingBuf # 0 /\ ~buffers[stagingBuf].live) => copyDone
    /\ apc = "returned" =>
          /\ returned = destinationBuf
          /\ buffers[returned].live
          /\ ~buffers[stagingBuf].live
          /\ commandBuffer = NoCommandBuffer
          /\ {h \in DOMAIN buffers : buffers[h].live} \ liveAtCall = {returned}

C9_Witness ==
    /\ apc = "returned"
    /\ Len(data) > 0
    /\ copyDone
    /\ numTransfers = 2

\* C10: a native call that fails is fatal: once a native call has returned
\* a failure the operation is aborted; it takes no later step and returns
\* no buffer.
C10_NativeFailureIsFatal ==
    failedCall # "none" => apc = "aborted"

(***************************************************************************)
(* Properties of the frame loop.                                           *)
(***************************************************************************)
\* the instances cached by all Frames, over all their map indices
CachedSets ==
    UNION {UNION {{descriptorSets[f][c][h].id : h \in DOMAIN descriptorSets[f][c]}
                  : c \in DOMAIN descriptorSets[f]} : f \in Frames}

CachedPools ==
    UNION {UNION {{descriptorPools[f][c][h].id : h \in DOMAIN descriptorPools[f][c]}
                  : c \in DOMAIN descriptorPools[f]} : f \in Frames}

SlotsUsed == {f \in Frames : recorded[f] # 0}

\* C3: when the slots are cycled round-robin by frames that all refer to
\* the same material, one descriptor pool and one descriptor set exist per
\* slot used, not per frame; with 2 slots, after 3 frames there are 2 pools
\* and 2 sets.
C3_OnePoolAndSetPerSlotUsed ==
    /\ numSets = Cardinality(SlotsUsed)
    /\ numPools = Cardinality(SlotsUsed)
    /\ Cardinality(CachedSets) = Cardinality(SlotsUsed)
    /\ Cardinality(CachedPools) = Cardinality(SlotsUsed)
    /\ (NumFrames = 2 /\ frameCounter = 3) => (numPools = 2 /\ numSets = 2)

C3_Witness ==
    /\ frameCounter = 3
    /\ Cardinality(CachedSets) = 2
    /\ Cardinality(CachedPools) = 2

\* C5: a slot's command buffer is re-recorded, and its descriptor sets are
\* updated, only while the slot's fence is signaled and no submission that
\* used the slot is still with the device.
C5_RecordOnlyWhileFenceSignaled ==
    [][\A f \in Frames :
          (recorded'[f] # recorded[f] \/ updatedSets'[f] # updatedSets[f])
              => /\ fenceSignaled[frames[f].fence]
                 /\ submission[f].state = "none"]_vars

\* a slot that has been recorded a second time
C5_Witness == \E f \in Frames : recorded[f] > NumFrames

Started(f) == submission[f].state = "waiting" /\ submission'[f].state = "executing"
Completed(f) == submission[f].state = "executing" /\ submission'[f].state = "none"
Displayed(f) ==
    /\ presentQueue # <<>>
    /\ presentQueue' = Tail(presentQueue)
    /\ Head(presentQueue).slot = f

PhaseOrder ==
    {<<"idle", "acquired">>, <<"acquired", "recorded">>, <<"recorded", "submitted">>,
     <<"submitted", "presented">>, <<"presented", "acquired">>}

\* C6: for every frame the CPU acquires, records, submits and presents in
\* this order; the device starts the submission only once the slot's
\* image-available semaphore is signaled; its completion signals the slot's
\* render-finished semaphore and fence; the image is shown only once the
\* render-finished semaphore is signaled.
C6_AcquireRecordSubmitPresent ==
    [][\A f \in Frames :
          /\ phase'[f] # phase[f] => <<phase[f], phase'[f]>> \in PhaseOrder
          /\ Started(f) =>
                /\ semSignaled[frames[f].imageAvailableSemaphore]
                /\ phase[f] \in {"submitted", "presented"}
          /\ Completed(f) =>
                /\ semSignaled'[frames[f].renderFinishedSemaphore]
                /\ fenceSignaled'[frames[f].fence]
          /\ Displayed(f) => semSignaled[frames[f].renderFinishedSemaphore]]_vars

\* a frame that went through all four steps and was shown
C6_Witness ==
    \E f \in Frames :
        /\ phase[f] = "presented"
        /\ recorded[f] > NumFrames
        /\ presentQueue = <<>>
        /\ submission[f].state = "none"
        /\ fenceSignaled[frames[f].fence]

(***************************************************************************)
(* Properties of swapchain recreation.                                     *)
(***************************************************************************)
\* the loop is at its top with no request raised, no callback outstanding
\* and no recreation under way
Quiescent ==
    /\ spc = "loop"
    /\ ~needsSwapChainRecreation
    /\ ~recreatingSwapChain
    /\ pendingSignals = 0

C12_NoOverlappingRecreation ==
    [][/\ numRecreations' # numRecreations => ~recreatingSwapChain
       /\ \A g \in DOMAIN destroyed' : destroyed'[g] <= 1]_vars

\* a trigger was refused during a recreation that then completed
C12_Witness ==
    /\ numRejected = 1
    /\ spc = "loop"
    /\ ~recreatingSwapChain
    /\ destroyed[1] = 1

\* C13: the old objects are destroyed only during a recreation and while
\* no slot has a submission in flight; no pending command buffer refers to
\* destroyed objects; no frame is acquired while a recreation is under way.
C13_DestroyOnlyWhenDeviceIdle ==
    [][/\ destroyed' # destroyed =>
             /\ recreatingSwapChain
             /\ \A f \in Frames : inFlight[f] = 0
       /\ \A f \in Frames : inFlight'[f] # 0 => destroyed'[inFlight'[f]] = 0
       /\ numDraws' # numDraws => ~recreatingSwapChain]_vars

\* the first swapchain was drawn to, and has been destroyed
C13_Witness ==
    /\ spc = "query"
    /\ swapChain.gen = 1
    /\ destroyed[1] = 1
    /\ swapSlot = 2

\* a step in which acquire or present returned
SwapCallReturned == numDraws' # numDraws \/ swapSlot' # swapSlot

\* C14: when acquire or present returns out-of-date or suboptimal the run
\* goes on: the recreation is requested and the loop is back at its top;
\* when it returns any other failure the run terminates.
C14_TransientResultsRecover ==
    [][SwapCallReturned =>
          LET result == lastResult'.result
          IN /\ result \in {"VK_ERROR_OUT_OF_DATE_KHR", "VK_SUBOPTIMAL_KHR"} =>
                   /\ spc' = "loop"
                   /\ needsSwapChainRecreation'
             /\ result = "VK_SUCCESS" => spc' # "terminated"
             /\ result \notin {"VK_SUCCESS", "VK_ERROR_OUT_OF_DATE_KHR",
                                "VK_SUBOPTIMAL_KHR"} => spc' = "terminated"]_vars

\* present returned suboptimal before any callback, and the recreation it
\* requested has completed
C14_Witness ==
    /\ lastResult = [call |-> "present", result |-> "VK_SUBOPTIMAL_KHR"]
    /\ spc = "loop"
    /\ pendingSignals = numSignals
    /\ numRecreations = 1
    /\ ~recreatingSwapChain
    /\ swapChain.extent = windowSize

(***************************************************************************)
(* Properties of DeviceAllocator::free.                                    *)
(***************************************************************************)
\* C15: free moves exactly the allocation it is given from live to
\* destroyed, resource and memory together, and leaves every other
\* allocation as it was; a destroyed allocation never changes again.
C15_FreeIsIrreversible ==
    [][/\ \A a \in DOMAIN allocations :
             ~Live(allocations[a]) => allocations'[a] = allocations[a]
       /\ lastFree' # lastFree =>
             LET a == lastFree'.allocation
             IN /\ Live(allocations[a])
                /\ allocations'[a].resource = "destroyed"
                /\ allocations'[a].memory = "destroyed"
                /\ DOMAIN allocations' = DOMAIN allocations
                /\ \A b \in DOMAIN allocations \ {a} :
                      allocations'[b] = allocations[b]]_vars

\* a buffer and an image were freed while another allocation stayed live
C15_Witness ==
    /\ lastFree # NoFree
    /\ \E a \in DOMAIN allocations :
          allocations[a].kind = "buffer" /\ ~Live(allocations[a])
    /\ \E a \in DOMAIN allocations :
          allocations[a].kind = "image" /\ ~Live(allocations[a])
    /\ \E a \in DOMAIN allocations : Live(allocations[a])

(***************************************************************************)
(* Properties of Frame::~Frame.                                            *)
(***************************************************************************)
LogIndex(what) == {i \in DOMAIN destroyLog : destroyLog[i].what = what}

Before(as, bs) == \A i \in as : \A j \in bs : i < j

\* C16: every cached descriptor set is released before any descriptor pool,
\* every pool before the fence, the fence before the semaphores, and the
\* command pool last; by then every cached set and pool has been released.
C16_DependentsBeforeDependencies ==
    /\ Before(LogIndex("descriptorSet"), LogIndex("descriptorPool"))
    /\ Before(LogIndex("descriptorSet") \cup LogIndex("descriptorPool"),
              LogIndex("fence") \cup LogIndex("semaphore") \cup LogIndex("commandPool"))
    /\ Before(LogIndex("fence"), LogIndex("semaphore"))
    /\ Before(LogIndex("semaphore"), LogIndex("commandPool"))
    /\ (LogIndex("fence") \cup LogIndex("semaphore") \cup LogIndex("commandPool")) # {}
          => /\ SetsOf(1) \subseteq Released("descriptorSet")
             /\ PoolsOf(1) \subseteq Released("descriptorPool")

\* a Frame that cached two sets and two pools has been torn down
C16_Witness ==
    /\ tpc = "done"
    /\ Cardinality(SetsOf(1)) = 2
    /\ Cardinality(PoolsOf(1)) = 2
    /\ Len(destroyLog) = 8

(***************************************************************************)
(* Properties of DeviceAllocator::copyBuffer.                              *)
(***************************************************************************)
InCopyBuffer ==
    {"cbAllocate", "cbBegin", "cbCopy", "cbEnd", "cbSubmit", "cbWaitIdle", "cbFree"}

\* the one region copyBuffer is to record: the whole size, from offset 0
WholeBuffer ==
    [kind |-> "copy", src |-> stagingBuf, dst |-> destinationBuf,
     srcOffset |-> 0, dstOffset |-> 0, size |-> Len(data)]

\* C17: a command buffer is allocated only by the first step of copyBuffer;
\* what is submitted is the one region that covers the whole size from
\* offset 0; the command buffer is freed only by the last step, when the
\* wait has returned and the queue is idle; outside copyBuffer no transfer
\* command buffer is allocated.
C17_OneShotCommandBuffer ==
    [][/\ (commandBuffer.state = "none" /\ commandBuffer'.state # "none")
             => (apc = "cbAllocate" /\ apc' = "cbBegin")
       /\ (transferQueue' # transferQueue /\ transferQueue' # NoWork)
             => (apc = "cbSubmit" /\ transferQueue' = WholeBuffer)
       /\ (commandBuffer.state # "none" /\ commandBuffer'.state = "none")
             => /\ apc = "cbFree"
                /\ commandBuffer.copy = WholeBuffer
                /\ commandBuffer.state = "invalid"
                /\ transferQueue = NoWork
       /\ apc' \notin (InCopyBuffer \cup {"aborted"})
             => commandBuffer' = NoCommandBuffer]_vars

\* the second copyBuffer call of a run has returned
C17_Witness ==
    /\ apc = "destroyStaging"
    /\ numTransfers = 2
    /\ copyDone
    /\ commandBuffer = NoCommandBuffer

(***************************************************************************)
(* Further properties of the descriptor caches.                            *)
(***************************************************************************)
\* every entry of the maps m is an entry of the maps n, unchanged
Kept(m, n) ==
    \A c \in DOMAIN m :
        /\ c \in DOMAIN n
        /\ \A h \in DOMAIN m[c] : h \in DOMAIN n[c] /\ n[c][h] = m[c][h]

\* C18: no call to getDescriptorPool, getDescriptorSet or
\* updateDescriptorSets removes or replaces an entry of a cache: every
\* cached pool and set is still cached, unchanged, after the call.
C18_CachesNeverEvict ==
    [][\A f \in Frames :
          /\ Kept(descriptorSets[f], descriptorSets'[f])
          /\ Kept(descriptorPools[f], descriptorPools'[f])]_vars

\* two sets cached in one slot
C18_Witness ==
    \E c \in DOMAIN descriptorSets[1] :
        /\ Cardinality(DOMAIN descriptorSets[1][c]) = 2
        /\ numCalls = 2

\* the sets cached under index c of Frame f
SetsOfSlot(f, c) ==
    IF c \in DOMAIN descriptorSets[f]
    THEN {descriptorSets[f][c][h].id : h \in DOMAIN descriptorSets[f][c]}
    ELSE {}

\* C19: updateDescriptorSets(slot) updates exactly the descriptor sets cached
\* for that slot; it creates no set and no pool and leaves both caches as
\* they were, so a slot without a cache gets no entry.
C19_UpdateTouchesOnlyItsSlot ==
    [][(numCalls' # numCalls /\ lastCall'.kind = "updateDescriptorSets") =>
          /\ lastCall'.updated = SetsOfSlot(lastCall'.frame, lastCall'.index)
          /\ \A id \in lastCall'.updated : id[2] = lastCall'.index
          /\ descriptorSets' = descriptorSets
          /\ descriptorPools' = descriptorPools
          /\ numSets' = numSets
          /\ numPools' = numPools]_vars

\* an update of a slot that has a set cached
C19_Witness ==
    /\ lastCall.kind = "updateDescriptorSets"
    /\ lastCall.updated # {}
    /\ numSets = 1

\* the pools cached under index c of Frame f
PoolsOfSlot(f, c) ==
    IF c \in DOMAIN descriptorPools[f]
    THEN {descriptorPools[f][c][h].id : h \in DOMAIN descriptorPools[f][c]}
    ELSE {}

\* C20: every cached descriptor set was allocated from a pool cached in its
\* own slot; a set that getDescriptorSet creates comes from the pool cached
\* under the hash of the requested layout; a slot holds one pool per layout
\* hash, so the pools constructed are the pools cached; a cache hit creates
\* no pool.
C20_SetsComeFromTheirSlotsPool ==
    /\ \A c \in DOMAIN descriptorSets[1] : \A h \in DOMAIN descriptorSets[1][c] :
          descriptorSets[1][c][h].pool \in PoolsOfSlot(1, c)
    /\ \A c \in DOMAIN descriptorPools[1] : \A h \in DOMAIN descriptorPools[1][c] :
          /\ descriptorPools[1][c][h].id = <<1, c, h>>
          /\ hash_value(descriptorPools[1][c][h].layout) = h
    /\ numPools = Cardinality(UNION {PoolsOfSlot(1, c) : c \in DOMAIN descriptorPools[1]})
    /\ lastCall.kind = "getDescriptorSet" =>
          LET req == lastCall.request
              h == hash_value(req.layout)
          IN /\ lastCall.created =>
                   /\ req.index \in DOMAIN descriptorPools[1]
                   /\ h \in DOMAIN descriptorPools[1][req.index]
                   /\ descriptorSets[1][lastCall.ret[2]][lastCall.ret[3]].pool
                         = descriptorPools[1][req.index][h].id
             /\ ~lastCall.created => ~lastCall.poolCreated

\* two sets of one slot allocated from the slot's one pool
C20_Witness ==
    /\ numSets = 2
    /\ numPools = 1
    /\ lastCall.kind = "getDescriptorSet"
    /\ lastCall.created
    /\ ~lastCall.poolCreated

\* C21: every Frame's fence is created signaled, so a slot that was never
\* submitted has a signaled fence and its first wait returns at once; and
\* when the device completes every submission, the fence wait of every slot
\* in every iteration returns and the loop goes on to its next iteration.
FirstWaitNeedsNoSubmission ==
    \A f \in Frames : phase[f] = "idle" => fenceSignaled[getFence(f)]

FenceWaitReturns ==
    \A f \in Frames :
        (lpc = "waitFence" /\ CurrentSlot = f /\ frameCounter < MaxFrames)
            ~> (lpc = "acquire" /\ CurrentSlot = f)

LoopProgresses ==
    \A n \in 0..(MaxFrames - 1) : (frameCounter = n) ~> (frameCounter = n + 1)

C21_FenceWaitAlwaysReturns ==
    /\ []FirstWaitNeedsNoSubmission
    /\ FenceWaitReturns
    /\ LoopProgresses

\* the wait returned on a slot whose fence an earlier submission had reset,
\* while the other slots went through their first waits before
C21_Witness ==
    /\ lpc = "acquire"
    /\ frameCounter >= NumFrames
    /\ recorded[CurrentSlot] > 0
    /\ phase[CurrentSlot] = "presented"

\* C22: a move construction leaves the five handles with the destination
\* and VK_NULL_HANDLE in the source, no native object is held by two Frame
\* objects, none is destroyed twice, and once every Frame object that was
\* made is destroyed each native object that was created is destroyed once.
Holders(n) ==
    {o \in FrameObjs : /\ fobj[o].state \in {"alive", "destroying"}
                       /\ \E k \in HandleFields : fobj[o].h[k] = n}

Created == UNION {{NewFrame(n)[k] : k \in HandleFields} : n \in 1 .. numConstructed}

AllFrameObjsDestroyed ==
    \A o \in FrameObjs : fobj[o].state \in {"absent", "dead"}

MoveHandsOver ==
    lastMove' # lastMove =>
        /\ fobj'[lastMove'.to].h = fobj[lastMove'.from].h
        /\ fobj'[lastMove'.from].h = NullHandles

DestroyedOnce ==
    /\ \A n \in Natives : Cardinality(Holders(n)) <= 1
    /\ \A n \in Natives : destroyCalls[n] <= 1
    /\ AllFrameObjsDestroyed => \A n \in Created : destroyCalls[n] = 1

C22_MovedFrameDestroyedOnce ==
    /\ []DestroyedOnce
    /\ [][MoveHandsOver]_vars

\* a Frame that held native objects was moved from, and both the source and
\* the destination have been destroyed
C22_Witness ==
    /\ lastMove # NoMove
    /\ lastMove.taken # NullHandles
    /\ fobj[lastMove.to].state = "dead"
    /\ fobj[lastMove.from].state = "dead"

====
